---- MODULE Spec2Model ----
(***************************************************************************)
(* A model of the GitHub repository chatbot: the line chunker, the batch   *)
(* embedder, the collection namer, the URL validator, and the workflow     *)
(* (validate_url -> process_repo -> chat) over the vector store.           *)
(*                                                                         *)
(* Specifications: SpecChunker, SpecEmbedder, SpecNamer, SpecValidator and *)
(* SpecChatNode run one call of one function on bounded inputs; Spec is    *)
(* the session with its runs of the graph; SpecRun is one run of the graph *)
(* under weak fairness; SpecIngestions is two ingestions on one store.     *)
(*                                                                         *)
(* Text is a sequence of one-character strings.  The tokenizer (tiktoken)  *)
(* is abstracted as one token per character, so a line of n characters     *)
(* costs n + 1 tokens with its newline; every positive line cost occurs.   *)
(***************************************************************************)
EXTENDS Integers, Sequences, FiniteSets, TLC

VARIABLES chunker, embedder, namer, validator,   \* one call of each pure function
          chatcall,   \* one call of chat_node on a given state and store
          ingestions, \* two process_repo_node executions sharing one store
          state,      \* the RAGState of the workflow run in progress
          node,       \* the graph node about to run
          db,         \* the persistent vector store: collection name -> records
          session,    \* st.session_state.current_state
          run         \* bookkeeping of the run in progress

wfVars == <<state, node, db, session, run>>
vars == <<chunker, embedder, namer, validator, chatcall, ingestions, wfVars>>

(***************************************************************************)
(* Bounds of the model.                                                    *)
(***************************************************************************)
MaxContentLen == 6
MaxChunkSize == 4
MaxOverlap == 3
MaxTexts == 4
MaxBatchSize == 3
MaxOwnerLen == 2
MaxTailLen == 2
MaxSegLen == 2
MaxHistory == 3
MaxTurns == 7

Min(a, b) == IF a < b THEN a ELSE b
Max(a, b) == IF a > b THEN a ELSE b

RECURSIVE SeqsUpTo(_, _)
SeqsUpTo(S, n) ==
  IF n = 0 THEN {<<>>}
  ELSE LET shorter == SeqsUpTo(S, n - 1)
       IN shorter \cup {Append(s, c) : s \in {t \in shorter : Len(t) = n - 1}, c \in S}

NL == "\n"

Idle == [pc |-> "idle"]

\* The workflow is not part of a specification of one pure function.
WorkflowOff ==
  /\ state = Idle /\ node = "off" /\ db = Idle /\ session = Idle /\ run = Idle

(***************************************************************************)
(* chunker.py                                                              *)
(***************************************************************************)
DefaultMaxChunkSize == 1000
DefaultChunkOverlap == 100

\* str.split('\n'): the pieces between newlines; always at least one piece.
RECURSIVE Split(_)
Split(s) ==
  IF \A k \in 1..Len(s) : s[k] # NL THEN <<s>>
  ELSE LET k == CHOOSE j \in 1..Len(s) : s[j] = NL /\ \A m \in 1..(j - 1) : s[m] # NL
       IN <<SubSeq(s, 1, k - 1)>> \o Split(SubSeq(s, k + 1, Len(s)))

\* '\n'.join(ls)
RECURSIVE Join(_)
Join(ls) ==
  IF Len(ls) = 0 THEN <<>>
  ELSE IF Len(ls) = 1 THEN ls[1]
  ELSE ls[1] \o <<NL>> \o Join(Tail(ls))

\* len(self.encoding.encode(text)), one token per character.
count_tokens(text) == Len(text)

\* sum(self.count_tokens(l + '\n') for l in current_chunk)
RECURSIVE SumTokens(_)
SumTokens(ls) ==
  IF Len(ls) = 0 THEN 0
  ELSE count_tokens(Append(ls[1], NL)) + SumTokens(Tail(ls))

\* Mutant: one line more than chunk_overlap is carried over.
OverlapLinesOneMore(current_chunk, chunk_overlap) ==
  IF chunk_overlap # 0
    THEN SubSeq(current_chunk, Max(1, Len(current_chunk) - chunk_overlap),
                Len(current_chunk))
    ELSE <<>>

\* Mutant: a buffer shorter than chunk_overlap carries nothing over.
OverlapLinesNoneWhenShorter(current_chunk, chunk_overlap) ==
  IF chunk_overlap # 0 /\ Len(current_chunk) >= chunk_overlap
    THEN SubSeq(current_chunk, Len(current_chunk) - chunk_overlap + 1,
                Len(current_chunk))
    ELSE <<>>

\* current_chunk[-self.chunk_overlap:] if self.chunk_overlap else []
\* (a slice longer than the list is the whole list)
OverlapLines(current_chunk, chunk_overlap) ==
  IF chunk_overlap # 0
    THEN SubSeq(current_chunk, Max(1, Len(current_chunk) - chunk_overlap + 1),
                Len(current_chunk))
    ELSE <<>>

\* Mutant: the next chunk is numbered from the current line.
NextStartLineNoOverlap(i, overlap_lines) == i

\* start_line = i - len(overlap_lines)
NextStartLine(i, overlap_lines) == i - Len(overlap_lines)

MakeChunk(current_chunk, file_path, start_line, end_line, owner, repo) ==
  [content |-> Join(current_chunk), file_path |-> file_path,
   start_line |-> start_line, end_line |-> end_line,
   owner |-> owner, repo |-> repo]

\* One iteration of the for loop over enumerate(lines, 1).
LoopBody(c) ==
  LET i == c.i
      line == c.lines[c.i]
      line_tokens == count_tokens(Append(line, NL))
  IN
  IF c.current_tokens + line_tokens > c.max_chunk_size /\ c.current_chunk # <<>>
    THEN LET overlap_lines == OverlapLines(c.current_chunk, c.chunk_overlap)
             next_chunk == Append(overlap_lines, line)
         IN [c EXCEPT
               !.chunks = Append(@, MakeChunk(c.current_chunk, c.file_path,
                                              c.start_line, i - 1, c.owner, c.repo)),
               !.current_chunk = next_chunk,
               !.current_tokens = SumTokens(next_chunk),
               !.start_line = NextStartLine(i, overlap_lines),
               !.i = i + 1]
    ELSE [c EXCEPT !.current_chunk = Append(@, line),
                   !.current_tokens = @ + line_tokens,
                   !.i = i + 1]

\* The tail of chunk_by_lines: the last buffer becomes the last chunk.
Flush(c) ==
  IF c.current_chunk # <<>>
    THEN [c EXCEPT !.chunks = Append(@, MakeChunk(c.current_chunk, c.file_path,
                                                  c.start_line, Len(c.lines),
                                                  c.owner, c.repo)),
                   !.pc = "done"]
    ELSE [c EXCEPT !.pc = "done"]

\* The locals of chunk_by_lines before the loop.
ChunkerLocals(content, file_path, owner, repo, max_chunk_size, chunk_overlap) ==
  [pc |-> "loop", i |-> 1, content |-> content, file_path |-> file_path, owner |-> owner, repo |-> repo,
   max_chunk_size |-> max_chunk_size, chunk_overlap |-> chunk_overlap,
   lines |-> Split(content),
   chunks |-> <<>>, current_chunk |-> <<>>, current_tokens |-> 0, start_line |-> 1]

RECURSIVE RunLoop(_)
RunLoop(c) == IF c.i > Len(c.lines) THEN c ELSE RunLoop(LoopBody(c))

\* CodeChunker(max_chunk_size, chunk_overlap).chunk_by_lines(content, ...)
chunk_by_lines(content, file_path, owner, repo, max_chunk_size, chunk_overlap) ==
  Flush(RunLoop(ChunkerLocals(content, file_path, owner, repo,
                              max_chunk_size, chunk_overlap))).chunks

ContentAlphabet == {"a", NL}
Contents == SeqsUpTo(ContentAlphabet, MaxContentLen)
ChunkSizes == (1..MaxChunkSize) \cup {DefaultMaxChunkSize}
Overlaps == (0..MaxOverlap) \cup {DefaultChunkOverlap}

InitChunker ==
  /\ \E content \in Contents, m \in ChunkSizes, o \in Overlaps :
       chunker = ChunkerLocals(content, <<"f">>, <<"o">>, <<"r">>, m, o)
  /\ embedder = Idle /\ namer = Idle /\ validator = Idle
  /\ chatcall = Idle /\ ingestions = Idle /\ WorkflowOff

ChunkerLoop ==
  /\ chunker.pc = "loop"
  /\ chunker.i <= Len(chunker.lines)
  /\ chunker' = LoopBody(chunker)
  /\ UNCHANGED <<chatcall, ingestions, embedder, namer, validator, wfVars>>

ChunkerReturn ==
  /\ chunker.pc = "loop"
  /\ chunker.i > Len(chunker.lines)
  /\ chunker' = Flush(chunker)
  /\ UNCHANGED <<chatcall, ingestions, embedder, namer, validator, wfVars>>

NextChunker == ChunkerLoop \/ ChunkerReturn

SpecChunker == InitChunker /\ [][NextChunker]_vars

(***************************************************************************)
(* embedder.py                                                             *)
(***************************************************************************)
DefaultBatchSize == 20

\* The embedding service: the vector it gives a text.
EmbeddingOf(text) == <<"vec", text>>

\* client.embeddings.create(model, input=batch).data: one item per input,
\* in input order.
EmbeddingsCreate(batch) == [k \in 1..Len(batch) |-> EmbeddingOf(batch[k])]

\* Mutant: the slice forgets the offset (texts[i:batch_size]).
BatchSliceNoOffset(texts, i, batch_size) == SubSeq(texts, i + 1, Min(batch_size, Len(texts)))

\* batch = texts[i:i + batch_size], i counted from 0.
BatchSlice(texts, i, batch_size) == SubSeq(texts, i + 1, Min(i + batch_size, Len(texts)))

\* The locals of generate_batch_embeddings before the loop.
EmbedderLocals(texts, batch_size) ==
  [pc |-> "loop", texts |-> texts, batch_size |-> batch_size, i |-> 0,
   embeddings |-> <<>>, calls |-> <<>>]

\* One iteration of the loop over range(0, len(texts), batch_size).
EmbedBatch(e) ==
  LET batch == BatchSlice(e.texts, e.i, e.batch_size) IN
  [e EXCEPT !.calls = Append(@, batch),
            !.embeddings = @ \o EmbeddingsCreate(batch),
            !.i = @ + e.batch_size]

RECURSIVE RunBatches(_)
RunBatches(e) == IF e.i >= Len(e.texts) THEN e ELSE RunBatches(EmbedBatch(e))

\* generate_batch_embeddings(texts, batch_size) when no call fails.
generate_batch_embeddings(texts, batch_size) ==
  RunBatches(EmbedderLocals(texts, batch_size)).embeddings

\* len(range(0, len(texts), batch_size)): the number of calls
NumBatches(texts, batch_size) == (Len(texts) + batch_size - 1) \div batch_size

\* generate_batch_embeddings when the call for batch fail_at raises (0: none
\* does): the exception leaves the function and the embeddings of the earlier
\* batches are lost with its locals.
EmbedOutcome(texts, batch_size, fail_at) ==
  IF fail_at \in 1..NumBatches(texts, batch_size)
    THEN [ok |-> FALSE, calls |-> fail_at - 1]
    ELSE [ok |-> TRUE, calls |-> NumBatches(texts, batch_size),
          embeddings |-> generate_batch_embeddings(texts, batch_size)]

TextValues == {"t1", "t2"}
BatchSizes == (1..MaxBatchSize) \cup {DefaultBatchSize}

InitEmbedder ==
  /\ \E texts \in SeqsUpTo(TextValues, MaxTexts), b \in BatchSizes :
       embedder = EmbedderLocals(texts, b)
  /\ chunker = Idle /\ namer = Idle /\ validator = Idle
  /\ chatcall = Idle /\ ingestions = Idle /\ WorkflowOff

EmbedderCall ==
  /\ embedder.pc = "loop"
  /\ embedder.i < Len(embedder.texts)
  /\ embedder' = EmbedBatch(embedder)
  /\ UNCHANGED <<chatcall, ingestions, chunker, namer, validator, wfVars>>

\* The service call raises: the exception leaves generate_batch_embeddings.
EmbedderCallFails ==
  /\ embedder.pc = "loop"
  /\ embedder.i < Len(embedder.texts)
  /\ embedder' = [embedder EXCEPT
                    !.pc = "raised",
                    !.calls = Append(@, BatchSlice(embedder.texts, embedder.i,
                                                   embedder.batch_size))]
  /\ UNCHANGED <<chatcall, ingestions, chunker, namer, validator, wfVars>>

EmbedderReturn ==
  /\ embedder.pc = "loop"
  /\ embedder.i >= Len(embedder.texts)
  /\ embedder' = [embedder EXCEPT !.pc = "done"]
  /\ UNCHANGED <<chatcall, ingestions, chunker, namer, validator, wfVars>>

NextEmbedder == EmbedderCall \/ EmbedderCallFails \/ EmbedderReturn

SpecEmbedder == InitEmbedder /\ [][NextEmbedder]_vars

(***************************************************************************)
(* agent.py: sanitize_collection_name                                      *)
(***************************************************************************)
TruncLen == 60
MinNameLen == 3

AlnumChars ==
  {"a", "b", "c", "d", "e", "f", "g", "h", "i", "j", "k", "l", "m", "n", "o", "p",
   "q", "r", "s", "t", "u", "v", "w", "x", "y", "z",
   "0", "1", "2", "3", "4", "5", "6", "7", "8", "9"}
\* str.isalnum() of one character
IsAlnum(c) == c \in AlnumChars

Str_collection == <<"_", "c", "o", "l", "l", "e", "c", "t", "i", "o", "n">>

\* raw_name.replace('-', '_')
ReplaceHyphens(s) == [k \in 1..Len(s) |-> IF s[k] = "-" THEN "_" ELSE s[k]]

KeepChar(c) == IsAlnum(c) \/ c = "_"
\* ''.join(c for c in sanitized if c.isalnum() or c == '_')
KeepAlnumUnderscore(s) == SelectSeq(s, KeepChar)

\* sanitized.strip('_')
RECURSIVE StripUnderscores(_)
StripUnderscores(s) ==
  IF Len(s) = 0 THEN s
  ELSE IF s[1] = "_" THEN StripUnderscores(Tail(s))
  ELSE IF s[Len(s)] = "_" THEN StripUnderscores(SubSeq(s, 1, Len(s) - 1))
  ELSE s

\* if len(sanitized) > 60: sanitized = sanitized[:60]
Truncate(s) == IF Len(s) > TruncLen THEN SubSeq(s, 1, TruncLen) ELSE s

\* Mutant: a name of exactly the minimum length is padded too.
EnsureMinLengthInclusive(s) == IF Len(s) <= MinNameLen THEN s \o Str_collection ELSE s

\* if len(sanitized) < 3: sanitized = sanitized + '_collection'
EnsureMinLength(s) == IF Len(s) < MinNameLen THEN s \o Str_collection ELSE s

\* if sanitized.endswith('_'): sanitized = sanitized[:-1] + 'x'
EnsureAlnumEnd(s) ==
  IF Len(s) > 0 /\ s[Len(s)] = "_" THEN Append(SubSeq(s, 1, Len(s) - 1), "x") ELSE s

\* The name before the length rules: combined, cleaned and stripped.
Stripped(owner, repo) ==
  StripUnderscores(KeepAlnumUnderscore(ReplaceHyphens(owner \o <<"_">> \o repo)))

sanitize_collection_name(owner, repo) ==
  EnsureAlnumEnd(EnsureMinLength(Truncate(Stripped(owner, repo))))

NameAlphabet == {"a", "-", "_", "."}
Pad(n) == [k \in 1..n |-> "a"]
PadLens == {0} \cup ((TruncLen - 4)..(TruncLen - 1))
Owners == SeqsUpTo(NameAlphabet, MaxOwnerLen)
Repos == {Pad(n) \o t : n \in PadLens, t \in SeqsUpTo(NameAlphabet, MaxTailLen)}

InitNamer ==
  /\ \E owner \in Owners, repo \in Repos :
       namer = [pc |-> "call", owner |-> owner, repo |-> repo, result |-> <<>>]
  /\ chunker = Idle /\ embedder = Idle /\ validator = Idle
  /\ chatcall = Idle /\ ingestions = Idle /\ WorkflowOff

Sanitize ==
  /\ namer.pc = "call"
  /\ namer' = [namer EXCEPT !.pc = "done",
                            !.result = sanitize_collection_name(namer.owner, namer.repo)]
  /\ UNCHANGED <<chatcall, ingestions, chunker, embedder, validator, wfVars>>

NextNamer == Sanitize

SpecNamer == InitNamer /\ [][NextNamer]_vars

(***************************************************************************)
(* agent.py: validate_url_node                                             *)
(***************************************************************************)
Str_https_github_com ==
  <<"h", "t", "t", "p", "s", ":", "/", "/",
    "g", "i", "t", "h", "u", "b", ".", "c", "o", "m", "/">>

\* The literal part of r"^https://github.com/": each character matches itself,
\* and the unescaped "." matches any character but a newline.
PatternPrefix == Str_https_github_com

MatchesPrefix(url) ==
  /\ Len(url) >= Len(PatternPrefix)
  /\ \A k \in 1..Len(PatternPrefix) :
       IF PatternPrefix[k] = "." THEN url[k] # NL ELSE url[k] = PatternPrefix[k]

\* [^/]+ at position p: the longest run of characters other than "/".
RECURSIVE RunEnd(_, _)
RunEnd(url, p) == IF p <= Len(url) /\ url[p] # "/" THEN RunEnd(url, p + 1) ELSE p

\* re.match(r"^https://github.com/([^/]+)/([^/]+)", url): the two groups, or
\* no match.  A greedy group gives nothing back that would help: the character
\* after a shorter first group is not "/".
ReMatch(url) ==
  IF ~MatchesPrefix(url) THEN [matched |-> FALSE]
  ELSE LET p1 == Len(PatternPrefix) + 1
           e1 == RunEnd(url, p1)
           p2 == e1 + 1
           e2 == RunEnd(url, p2)
       IN IF e1 > p1 /\ e1 <= Len(url) /\ url[e1] = "/" /\ e2 > p2
            THEN [matched |-> TRUE, group1 |-> SubSeq(url, p1, e1 - 1),
                  group2 |-> SubSeq(url, p2, e2 - 1)]
            ELSE [matched |-> FALSE]

\* A message is a sequence of text pieces; "" is the empty sequence.
Str_Invalid_GitHub_URL == <<"Invalid GitHub URL">>

\* validate_url_node(state): the keys it returns.
validate_url_node(st) ==
  LET match == ReMatch(st.repo_url) IN
  IF match.matched
    THEN [valid |-> TRUE, owner |-> match.group1, repo |-> match.group2,
          error |-> <<>>]
    ELSE [valid |-> FALSE, error |-> Str_Invalid_GitHub_URL]

Str_git == <<".", "g", "i", "t">>
UrlPrefixes ==
  { Str_https_github_com,
    Tail(Str_https_github_com),
    <<"h", "t", "t", "p", ":", "/", "/",
      "g", "i", "t", "h", "u", "b", ".", "c", "o", "m", "/">>,
    <<"h", "t", "t", "p", "s", ":", "/", "/",
      "g", "i", "t", "h", "u", "b", "x", "c", "o", "m", "/">>,
    <<"h", "t", "t", "p", "s", ":", "/", "/",
      "g", "i", "t", "l", "a", "b", ".", "c", "o", "m", "/">>,
    SubSeq(Str_https_github_com, 1, Len(Str_https_github_com) - 1) }
Segments == SeqsUpTo({"o", "-"}, MaxSegLen)
UrlSuffixes ==
  { <<>>, <<"/">>, <<"/", "s">>, <<"/", "s", "/", "s">>, Str_git,
    Str_git \o <<"/">>, <<"?", "q">>, <<"?", "q", "/", "s">>, <<"#", "f">> }
Urls ==
  {p \o s1 : p \in UrlPrefixes, s1 \in Segments}
    \cup {p \o s1 \o <<"/">> \o s2 \o x :
            p \in UrlPrefixes, s1 \in Segments, s2 \in Segments, x \in UrlSuffixes}

InitValidator ==
  /\ \E url \in Urls :
       validator = [pc |-> "call", state |-> [repo_url |-> url], result |-> [valid |-> FALSE]]
  /\ chunker = Idle /\ embedder = Idle /\ namer = Idle
  /\ chatcall = Idle /\ ingestions = Idle /\ WorkflowOff

ValidateUrl ==
  /\ validator.pc = "call"
  /\ validator' = [validator EXCEPT !.pc = "done",
                                    !.result = validate_url_node(validator.state)]
  /\ UNCHANGED <<chatcall, ingestions, chunker, embedder, namer, wfVars>>

NextValidator == ValidateUrl

SpecValidator == InitValidator /\ [][NextValidator]_vars

(***************************************************************************)
(* repo_crawler.py against a fixed hosting service                         *)
(***************************************************************************)
DigitChars == <<"0", "1", "2", "3", "4", "5", "6", "7", "8", "9">>
\* str(n) of a natural number
RECURSIVE Str(_)
Str(n) ==
  IF n < 10 THEN <<DigitChars[n + 1]>>
  ELSE Str(n \div 10) \o <<DigitChars[(n % 10) + 1]>>

\* The repositories of the hosting service: o/r has two text files, an empty
\* file and a directory; o/b has one file more than an embedding batch holds;
\* o/a-b and o/a_b are two repositories of one owner; o/e has no files; -/-
\* has one file; any other repository does not exist.
BigRepoFiles == DefaultBatchSize + 1
Repo_a_hyphen_b == <<"a", "-", "b">>
Repo_a_underscore_b == <<"a", "_", "b">>
Tree(owner, repo) ==
  IF owner = <<"o">> /\ repo = <<"r">>
    THEN <<[path |-> <<"d">>, type |-> "tree"],
           [path |-> <<"d", "/", "f">>, type |-> "blob"],
           [path |-> <<"g">>, type |-> "blob"],
           [path |-> <<"n">>, type |-> "blob"]>>
  ELSE IF owner = <<"o">> /\ repo = <<"b">>
    THEN [k \in 1..BigRepoFiles |-> [path |-> <<"p">> \o Str(k), type |-> "blob"]]
  ELSE IF owner = <<"o">> /\ repo = Repo_a_hyphen_b
    THEN <<[path |-> <<"g">>, type |-> "blob"]>>
  ELSE IF owner = <<"o">> /\ repo = Repo_a_underscore_b
    THEN <<[path |-> <<"d", "/", "f">>, type |-> "blob"],
           [path |-> <<"g">>, type |-> "blob"]>>
  ELSE IF owner = <<"-">> /\ repo = <<"-">>
    THEN <<[path |-> <<"g">>, type |-> "blob"]>>
  ELSE <<>>
RepoExists(owner, repo) ==
  <<owner, repo>> \in {<<<<"o">>, <<"r">>>>, <<<<"o">>, <<"b">>>>, <<<<"o">>, <<"e">>>>,
                       <<<<"o">>, Repo_a_hyphen_b>>, <<<<"o">>, Repo_a_underscore_b>>,
                       <<<<"-">>, <<"-">>>>}
RawContent(owner, repo, file_path) ==
  IF file_path = <<"d", "/", "f">> THEN <<"a", NL, "a", "a">>
  ELSE IF file_path = <<"g">> THEN <<"a">>
  ELSE IF file_path[1] = "p" THEN <<"a">>
  ELSE <<>>

IsBlob(item) == item.type = "blob"
\* get_files: the blobs of the tree, or raise_for_status() raises.
get_files(owner, repo) ==
  IF RepoExists(owner, repo)
    THEN [ok |-> TRUE, files |-> SelectSeq(Tree(owner, repo), IsBlob)]
    ELSE [ok |-> FALSE]
\* get_file_content: resp.text
get_file_content(owner, repo, file_path) == RawContent(owner, repo, file_path)

(***************************************************************************)
(* vector_store.py                                                         *)
(***************************************************************************)
\* Mutant: the identifier leaves out end_line.
ChunkIdNoEnd(chunk) ==
  chunk.file_path \o <<"_">> \o Str(chunk.start_line)

\* f"{chunk['file_path']}_{chunk['start_line']}_{chunk['end_line']}"
ChunkId(chunk) ==
  chunk.file_path \o <<"_">> \o Str(chunk.start_line) \o <<"_">> \o Str(chunk.end_line)

\* What the store accepts as a collection name (the requirements listed in
\* sanitize_collection_name's docstring).
ValidCollectionName(name) ==
  /\ Len(name) >= 3
  /\ Len(name) <= 63
  /\ IsAlnum(name[1])
  /\ IsAlnum(name[Len(name)])
  /\ \A k \in 1..Len(name) : KeepChar(name[k])

EmptyDb == [name \in {} |-> {}]

\* create_or_get_collection: get_collection, and create_collection when that
\* raises; create_collection raises on a name the store does not accept.
create_or_get_collection(d, collection_name) ==
  IF collection_name \in DOMAIN d THEN [ok |-> TRUE, db |-> d]
  ELSE IF ValidCollectionName(collection_name)
    THEN [ok |-> TRUE, db |-> (collection_name :> {}) @@ d]
    ELSE [ok |-> FALSE, db |-> d]

\* collection.add: a record whose id the collection already holds (or that an
\* earlier record of the batch has) is dropped without an error.
CollectionAdd(records, batch) ==
  records \cup
    {batch[k] : k \in {j \in 1..Len(batch) :
                        /\ ~\E x \in records : x.id = batch[j].id
                        /\ ~\E i \in 1..(j - 1) : batch[i].id = batch[j].id}}

\* Mutant: the ids number the records from the collection's count.
store_chunks_numbered(d, collection_name, chunks, embeddings) ==
  LET n == Cardinality(d[collection_name]) IN
  [d EXCEPT ![collection_name] =
     CollectionAdd(@, [k \in 1..Len(chunks) |->
                         [id |-> Str(n + k), document |-> chunks[k].content,
                          embedding |-> embeddings[k], metadata |-> chunks[k]]])]

\* Mutant: the records are added to every collection of the store.
store_chunks_everywhere(d, collection_name, chunks, embeddings) ==
  [name \in DOMAIN d |->
     CollectionAdd(d[name], [k \in 1..Len(chunks) |->
                               [id |-> ChunkId(chunks[k]), document |-> chunks[k].content,
                                embedding |-> embeddings[k], metadata |-> chunks[k]]])]

\* store_chunks(collection, chunks, embeddings)
store_chunks(d, collection_name, chunks, embeddings) ==
  [d EXCEPT ![collection_name] =
     CollectionAdd(@, [k \in 1..Len(chunks) |->
                         [id |-> ChunkId(chunks[k]), document |-> chunks[k].content,
                          embedding |-> embeddings[k], metadata |-> chunks[k]]])]

\* query_similar_code: the documents of up to n_results records.
query_similar_code(d, collection_name, n_results) ==
  LET records == d[collection_name] IN
  IF Cardinality(records) <= n_results THEN {r.document : r \in records}
  ELSE LET top == CHOOSE S \in SUBSET records : Cardinality(S) = n_results
       IN {r.document : r \in top}

(***************************************************************************)
(* agent.py: the graph nodes.  A node's outcome is the keys it returns, the  *)
(* store it leaves, the services it touched and whether it caught an        *)
(* exception.  fault names the external call that fails in this execution.  *)
(***************************************************************************)
Get(st, key, default) == IF key \in DOMAIN st THEN st[key] ELSE default
\* LangGraph's state update: the returned keys overwrite the state's.
Merge(st, update) == update @@ st

ProcessFaults ==
  {"none", "get_files", "get_file_content", "embeddings", "embeddings_last",
   "create_collection", "store_chunks"}
ChatFaults == {"none", "embedding", "retrieval", "generation"}

\* The loop over code_files: the chunks of every file that has content.
RECURSIVE AllChunks(_, _, _)
AllChunks(owner, repo, code_files) ==
  IF Len(code_files) = 0 THEN <<>>
  ELSE LET file_path == code_files[1].path
           content == get_file_content(owner, repo, file_path)
       IN (IF content # <<>>
             THEN chunk_by_lines(content, file_path, owner, repo,
                                 DefaultMaxChunkSize, DefaultChunkOverlap)
             ELSE <<>>)
          \o AllChunks(owner, repo, Tail(code_files))

Contents_of(chunks) == [k \in 1..Len(chunks) |-> chunks[k].content]

\* Mutant: the failure path leaves a collection behind.
ProcessRaisedLeavesCollection(what, d, touched, calls) ==
  [update |-> [error |-> <<"Error processing repository: ", what>>, valid |-> FALSE],
   db |-> (<<"l", "e", "f", "t">> :> {}) @@ d,
   touched |-> touched, raised |-> TRUE, embed_calls |-> calls]

\* except Exception as e: return {"error": f"Error processing repository: ..."}
\* calls: the embedding calls that had returned by then.
ProcessRaised(what, d, touched, calls) ==
  [update |-> [error |-> <<"Error processing repository: ", what>>, valid |-> FALSE],
   db |-> d, touched |-> touched, raised |-> TRUE, embed_calls |-> calls]

process_repo_node(st, d, fault) ==
  LET owner == st.owner
      repo == st.repo
      listing == get_files(owner, repo)
  IN
  IF fault = "get_files" \/ ~listing.ok THEN ProcessRaised("get_files", d, {"github"}, 0)
  ELSE IF listing.files = <<>>
    THEN [update |-> [error |-> <<"No code files found in the repository">>,
                      valid |-> FALSE],
          db |-> d, touched |-> {"github"}, raised |-> FALSE, embed_calls |-> 0]
  ELSE IF fault = "get_file_content"
    THEN ProcessRaised("get_file_content", d, {"github"}, 0)
  ELSE LET all_chunks == AllChunks(owner, repo, listing.files) IN
  IF all_chunks = <<>>
    THEN [update |-> [error |-> <<"No content could be extracted from the repository">>,
                      valid |-> FALSE],
          db |-> d, touched |-> {"github"}, raised |-> FALSE, embed_calls |-> 0]
  ELSE LET texts == Contents_of(all_chunks)
           embedded == EmbedOutcome(texts, DefaultBatchSize,
                                    IF fault = "embeddings" THEN 1
                                    ELSE IF fault = "embeddings_last"
                                      THEN NumBatches(texts, DefaultBatchSize)
                                    ELSE 0)
       IN
  IF ~embedded.ok
    THEN ProcessRaised("embeddings", d, {"github", "embedding"}, embedded.calls)
  ELSE LET embeddings == embedded.embeddings
           collection_name == sanitize_collection_name(owner, repo)
           got == create_or_get_collection(d, collection_name)
       IN
  IF fault = "create_collection" \/ ~got.ok
    THEN ProcessRaised("create_collection", d, {"github", "embedding", "store"},
                       embedded.calls)
  ELSE IF fault = "store_chunks"
    THEN ProcessRaised("store_chunks", got.db, {"github", "embedding", "store"},
                       embedded.calls)
  ELSE [update |-> [chunks |-> all_chunks, embeddings |-> embeddings,
                    collection_name |-> collection_name, processed |-> TRUE,
                    error |-> <<>>],
        db |-> store_chunks(got.db, collection_name, all_chunks, embeddings),
        touched |-> {"github", "embedding", "store"}, raised |-> FALSE,
        embed_calls |-> embedded.calls]

Str_Sorry == <<"Sorry, I encountered an error while processing your question.">>
welcome_message(st) ==
  <<"Hello! I'm ready to help you with questions about the ">>
    \o Get(st, "owner", <<>>) \o <<"/">> \o Get(st, "repo", <<>>)
    \o <<" repository. What would you like to know?">>

\* Mutant: the failure path also records the apology as an assistant turn.
ChatRaisedAppends(st, what, d, touched) ==
  [update |-> [error |-> <<"Error in chat: ", what>>, answer |-> Str_Sorry,
               chat_history |-> Append(st.chat_history,
                                       [role |-> "assistant", content |-> Str_Sorry])],
   db |-> d, touched |-> touched, raised |-> TRUE]

\* except Exception as e: return {"error": f"Error in chat: ...", "answer": ...}
ChatRaised(st, what, d, touched) ==
  [update |-> [error |-> <<"Error in chat: ", what>>, answer |-> Str_Sorry],
   db |-> d, touched |-> touched, raised |-> TRUE]

\* Mutant: processing always hands over to chat.
route_to_chat(st) == "chat"

\* Mutant: an empty history is answered as an error, after the store was opened.
EmptyHistoryReplyError(st, d) ==
  [update |-> [error |-> <<"No chat history found">>,
               answer |-> <<"Please ask a question.">>],
   db |-> d, touched |-> {"store"}, raised |-> FALSE]

\* The reply to an empty history: a welcome message, nothing else touched.
EmptyHistoryReply(st, d) ==
  [update |-> [answer |-> welcome_message(st),
               chat_history |-> <<[role |-> "assistant",
                                   content |-> welcome_message(st)]>>,
               error |-> <<>>],
   db |-> d, touched |-> {}, raised |-> FALSE]

RecentTurns == 6
TopK == 5

\* recent_history = state["chat_history"][-6:]
RecentHistory(chat_history) ==
  SubSeq(chat_history, Max(1, Len(chat_history) - RecentTurns + 1), Len(chat_history))

\* The line one turn adds to conversation_context.
FormatTurn(msg) ==
  IF msg.role = "user" THEN <<"Previous Question: ">> \o msg.content \o <<NL>>
  ELSE IF msg.role = "assistant" THEN <<"Previous Answer: ">> \o msg.content \o <<NL>>
  ELSE <<>>

RECURSIVE FormatTurns(_)
FormatTurns(msgs) ==
  IF Len(msgs) = 0 THEN <<>> ELSE FormatTurn(msgs[1]) \o FormatTurns(Tail(msgs))

\* conversation_context: the turns of recent_history[:-1], formatted.
conversation_context(chat_history) ==
  IF Len(chat_history) > 1
    THEN LET recent_history == RecentHistory(chat_history)
         IN FormatTurns(SubSeq(recent_history, 1, Len(recent_history) - 1))
    ELSE <<>>

\* user_prompt: the retrieved documents, the conversation context and the query.
user_prompt(context, conversation, query) ==
  [context |-> context, conversation_context |-> conversation, query |-> query]

chat_node(st, d, fault, llm_answer) ==
  LET chat_history == Get(st, "chat_history", <<>>) IN
  IF chat_history = <<>> THEN EmptyHistoryReply(st, d)
  ELSE IF fault = "embedding" THEN ChatRaised(st, "embedding", d, {"embedding"})
  ELSE IF "collection_name" \notin DOMAIN st
    THEN ChatRaised(st, "collection_name", d, {"embedding"})
  ELSE LET got == create_or_get_collection(d, st.collection_name) IN
  IF ~got.ok THEN ChatRaised(st, "create_collection", got.db, {"embedding", "store"})
  ELSE IF fault = "retrieval"
    THEN ChatRaised(st, "retrieval", got.db, {"embedding", "store"})
  ELSE IF fault = "generation"
    THEN ChatRaised(st, "generation", got.db, {"embedding", "store", "llm"})
  ELSE [update |-> [answer |-> llm_answer,
                    chat_history |-> Append(chat_history,
                                            [role |-> "assistant",
                                             content |-> llm_answer]),
                    error |-> <<>>],
        prompt |-> user_prompt(query_similar_code(got.db, st.collection_name, TopK),
                               conversation_context(chat_history),
                               chat_history[Len(chat_history)].content),
        db |-> got.db, touched |-> {"embedding", "store", "llm"}, raised |-> FALSE]

route_after_validation(st) ==
  IF ~Get(st, "valid", FALSE) THEN "END"
  ELSE IF Get(st, "mode", "") = "chat_only" THEN "chat"
  ELSE "process_repo"

route_after_processing(st) ==
  IF Get(st, "error", <<>>) # <<>> THEN "END" ELSE "chat"

create_chat_only_state(collection_name, owner, repo, chat_history) ==
  [repo_url |-> Str_https_github_com \o owner \o <<"/">> \o repo,
   valid |-> TRUE, error |-> <<>>, chunks |-> <<>>, embeddings |-> <<>>,
   collection_name |-> collection_name, chat_history |-> chat_history,
   answer |-> <<>>, owner |-> owner, repo |-> repo, mode |-> "chat_only",
   processed |-> TRUE]

(***************************************************************************)
(* One call of chat_node, on any history a session can hold and any store.  *)
(***************************************************************************)
Queries == {<<"q1">>, <<"q2">>}
Answers == {<<"ans">>}

UserTurn == [role |-> "user", content |-> <<"q1">>]
AssistantTurn == [role |-> "assistant", content |-> <<"ans">>]

\* The histories handle_chat_query passes on: every assistant turn answers a
\* user turn, and the last turn is the query.
IsSessionHistory(h) ==
  /\ h # <<>> => (h[1].role = "user" /\ h[Len(h)].role = "user")
  /\ \A k \in 1..(Len(h) - 1) : h[k].role = "assistant" => h[k + 1].role = "user"
ChatHistories == {h \in SeqsUpTo({UserTurn, AssistantTurn}, MaxTurns) : IsSessionHistory(h)}

Name_o_r == <<"o", "_", "r">>
Name_o_s == <<"o", "_", "s">>
StoredRecord(path) ==
  LET chunk == MakeChunk(<<<<"a">>>>, path, 1, 1, <<"o">>, <<"r">>)
  IN [id |-> ChunkId(chunk), document |-> chunk.content,
      embedding |-> EmbeddingOf(chunk.content), metadata |-> chunk]
\* The persisted stores a chat turn may find.
StoreStates ==
  { EmptyDb,
    Name_o_r :> {},
    Name_o_r :> {StoredRecord(<<"f">>)},
    Name_o_r :> {StoredRecord(<<"f">>), StoredRecord(<<"g">>)},
    Name_o_s :> {StoredRecord(<<"f">>)},
    (Name_o_r :> {StoredRecord(<<"f">>)}) @@ (Name_o_s :> {}) }

InitChatNode ==
  /\ \E h \in ChatHistories, d \in StoreStates :
       chatcall = [pc |-> "call",
                   state |-> create_chat_only_state(Name_o_r, <<"o">>, <<"r">>, h),
                   db |-> d,
                   out |-> [raised |-> FALSE]]
  /\ chunker = Idle /\ embedder = Idle /\ namer = Idle /\ validator = Idle
  /\ ingestions = Idle /\ WorkflowOff

ChatCall ==
  /\ chatcall.pc = "call"
  /\ \E fault \in ChatFaults, llm_answer \in Answers :
       chatcall' = [chatcall EXCEPT
                      !.pc = "done",
                      !.out = chat_node(chatcall.state, chatcall.db, fault, llm_answer)]
  /\ UNCHANGED <<chunker, embedder, namer, validator, ingestions, wfVars>>

NextChatNode == ChatCall

SpecChatNode == InitChatNode /\ [][NextChatNode]_vars

(***************************************************************************)
(* main.py: the session, and the runs of the graph it starts                *)
(***************************************************************************)
NewSession ==
  [repo_url |-> <<>>, chat_history |-> <<>>, collection_name |-> <<>>,
   owner |-> <<>>, repo |-> <<>>, processed |-> FALSE, valid |-> FALSE,
   error |-> <<>>]

WorkflowUrls ==
  { Str_https_github_com \o <<"o", "/", "r">>,
    Str_https_github_com \o <<"o", "/", "b">>,
    Str_https_github_com \o <<"o", "/", "e">>,
    Str_https_github_com \o <<"o", "/", "x">>,
    Str_https_github_com \o <<"-", "/", "-">>,
    Tail(Str_https_github_com) \o <<"o", "/", "r">> }

Count(d, collection_name) ==
  IF collection_name \in DOMAIN d THEN Cardinality(d[collection_name]) ELSE 0

NoRun ==
  [caller |-> "none", last |-> "none", path |-> <<>>, touched |-> {},
   services |-> {}, raised |-> FALSE, embed_calls |-> 0, db_in |-> EmptyDb,
   history_before |-> <<>>,
   chat_in |-> <<>>, was_ingested |-> FALSE, before |-> 0]

Init ==
  /\ chunker = Idle /\ embedder = Idle /\ namer = Idle /\ validator = Idle
  /\ chatcall = Idle /\ ingestions = Idle
  /\ state = [repo_url |-> <<>>]
  /\ node = "idle"
  /\ db = EmptyDb
  /\ session = NewSession
  /\ run = [NoRun EXCEPT !.caller = "none"] @@ [ingested |-> {}]

\* process_repository: initial_state
initial_state(repo_url) ==
  [repo_url |-> repo_url, chat_history |-> <<>>,
   mode |-> "process_repo", valid |-> FALSE, processed |-> FALSE,
   error |-> <<>>]

\* process_repository(repo_url) up to graph.invoke(initial_state)
StartProcess ==
  /\ node = "idle"
  /\ \E repo_url \in WorkflowUrls : state' = initial_state(repo_url)
  /\ node' = "validate_url"
  /\ run' = [NoRun EXCEPT !.caller = "process"] @@ [ingested |-> run.ingested]
  /\ UNCHANGED <<chatcall, ingestions, chunker, embedder, namer, validator, db, session>>

\* handle_chat_query(query) up to graph.invoke(chat_state); the chat is offered
\* once a repository is processed and no error is shown.  The user turn is
\* appended to the session's own list.
StartChat ==
  /\ node = "idle"
  /\ session.processed
  /\ session.error = <<>>
  /\ Len(session.chat_history) < MaxHistory
  /\ \E query \in Queries :
       LET current_history == Append(session.chat_history,
                                     [role |-> "user", content |-> query])
       IN /\ session' = [session EXCEPT !.chat_history = current_history]
          /\ state' = create_chat_only_state(session.collection_name, session.owner,
                                             session.repo, current_history)
  /\ node' = "validate_url"
  /\ run' = [NoRun EXCEPT !.caller = "chat",
                          !.history_before = session.chat_history]
               @@ [ingested |-> run.ingested]
  /\ UNCHANGED <<chatcall, ingestions, chunker, embedder, namer, validator, db>>

ValidateUrlNode ==
  /\ node = "validate_url"
  /\ state' = Merge(state, validate_url_node(state))
  /\ node' = route_after_validation(state')
  /\ run' = [run EXCEPT !.last = "validate_url", !.path = Append(@, "validate_url"),
                        !.touched = {}, !.raised = FALSE]
  /\ UNCHANGED <<chatcall, ingestions, chunker, embedder, namer, validator, db, session>>

ProcessRepoNode ==
  /\ node = "process_repo"
  /\ \E fault \in ProcessFaults : \E out \in {process_repo_node(state, db, fault)} :
       LET repository == <<state.owner, state.repo>>
       IN /\ state' = Merge(state, out.update)
          /\ db' = out.db
          /\ run' = [run EXCEPT
                       !.last = "process_repo",
                       !.path = Append(@, "process_repo"),
                       !.touched = out.touched,
                       !.services = @ \cup out.touched,
                       !.raised = out.raised,
                       !.embed_calls = out.embed_calls,
                       !.db_in = db,
                       !.was_ingested = repository \in run.ingested,
                       !.before = Count(db, sanitize_collection_name(state.owner,
                                                                     state.repo)),
                       !.ingested = IF Get(out.update, "processed", FALSE)
                                      THEN @ \cup {repository} ELSE @]
  /\ node' = route_after_processing(state')
  /\ UNCHANGED <<chatcall, ingestions, chunker, embedder, namer, validator, session>>

ChatNode ==
  /\ node = "chat"
  /\ \E fault \in ChatFaults, llm_answer \in Answers :
       \E out \in {chat_node(state, db, fault, llm_answer)} :
          /\ state' = Merge(state, out.update)
          /\ db' = out.db
          /\ run' = [run EXCEPT !.last = "chat",
                                !.path = Append(@, "chat"),
                                !.touched = out.touched,
                                !.services = @ \cup out.touched,
                                !.raised = out.raised,
                                !.chat_in = Get(state, "chat_history", <<>>)]
  /\ node' = "END"
  /\ UNCHANGED <<chatcall, ingestions, chunker, embedder, namer, validator, session>>

\* process_repository(repo_url) after graph.invoke returned
FinishProcess ==
  /\ node = "END"
  /\ run.caller = "process"
  /\ session' =
       IF Get(state, "error", <<>>) # <<>>
         THEN [session EXCEPT !.error = state.error, !.processed = FALSE,
                              !.valid = FALSE]
       ELSE IF Get(state, "processed", FALSE)
         THEN [session EXCEPT !.repo_url = state.repo_url,
                              !.collection_name = state.collection_name,
                              !.owner = state.owner, !.repo = state.repo,
                              !.processed = TRUE, !.valid = TRUE,
                              !.error = <<>>, !.chat_history = <<>>]
       ELSE [session EXCEPT !.error = <<"Unknown error occurred during processing">>,
                            !.processed = FALSE, !.valid = FALSE]
  /\ node' = "idle"
  /\ UNCHANGED <<chatcall, ingestions, chunker, embedder, namer, validator, state, db, run>>

\* handle_chat_query(query) after graph.invoke returned
FinishChat ==
  /\ node = "END"
  /\ run.caller = "chat"
  /\ session' =
       IF Get(state, "error", <<>>) # <<>> THEN session
       ELSE [session EXCEPT !.chat_history = Get(state, "chat_history",
                                                 session.chat_history)]
  /\ node' = "idle"
  /\ UNCHANGED <<chatcall, ingestions, chunker, embedder, namer, validator, state, db, run>>

\* reset_session(), behind the "Process New Repository" button
ResetSession ==
  /\ node = "idle"
  /\ session.processed
  /\ session' = NewSession
  /\ UNCHANGED <<chatcall, ingestions, chunker, embedder, namer, validator, state, node, db, run>>

Next ==
  \/ StartProcess
  \/ StartChat
  \/ ValidateUrlNode
  \/ ProcessRepoNode
  \/ ChatNode
  \/ FinishProcess
  \/ FinishChat
  \/ ResetSession

Spec == Init /\ [][Next]_vars

(***************************************************************************)
(* One run of the compiled graph, graph.invoke(input), on each input the    *)
(* session layer builds and each persisted store.                           *)
(***************************************************************************)
\* (o/b differs from o/r only in the number of its files.)
RunInputs ==
  {initial_state(repo_url) :
     repo_url \in WorkflowUrls \ {Str_https_github_com \o <<"o", "/", "b">>}}
    \cup {create_chat_only_state(Name_o_r, <<"o">>, <<"r">>, h) :
            h \in {g \in ChatHistories : 1 <= Len(g) /\ Len(g) <= MaxHistory + 1}}

InitRun ==
  /\ chunker = Idle /\ embedder = Idle /\ namer = Idle /\ validator = Idle
  /\ chatcall = Idle /\ ingestions = Idle
  /\ state \in RunInputs
  /\ node = "validate_url"
  /\ db \in IF state.mode = "chat_only" THEN StoreStates
            ELSE {EmptyDb, Name_o_r :> {StoredRecord(<<"g">>)}}
  /\ session = NewSession
  /\ run = [NoRun EXCEPT !.caller = IF state.mode = "chat_only" THEN "chat"
                                     ELSE "process"] @@ [ingested |-> {}]

NextRun == ValidateUrlNode \/ ProcessRepoNode \/ ChatNode

\* invoke runs the node it has routed to until the route is END.
SpecRun ==
  /\ InitRun /\ [][NextRun]_vars
  /\ WF_vars(ValidateUrlNode) /\ WF_vars(ProcessRepoNode) /\ WF_vars(ChatNode)

(***************************************************************************)
(* Two executions of process_repo_node at once, for two different           *)
(* repositories, on one store.  An execution reaches the store in three     *)
(* calls: get_collection, create_collection when that raised, and           *)
(* collection.add; the calls of the two executions interleave.              *)
(***************************************************************************)
Procs == {1, 2}
Other(p) == 3 - p

IngestRepos ==
  { <<<<"o">>, <<"r">>>>, <<<<"o">>, Repo_a_hyphen_b>>, <<<<"o">>, Repo_a_underscore_b>>,
    <<<<"-">>, <<"-">>>> }

\* process_repo_node up to the embeddings: nothing of the store is used.
IngestLocals(owner, repo) ==
  LET listing == get_files(owner, repo)
      all_chunks == IF listing.ok THEN AllChunks(owner, repo, listing.files) ELSE <<>>
  IN [pc |-> IF all_chunks = <<>> THEN "failed" ELSE "get",
      owner |-> owner, repo |-> repo,
      chunks |-> all_chunks,
      embeddings |-> generate_batch_embeddings(Contents_of(all_chunks), DefaultBatchSize),
      collection_name |-> sanitize_collection_name(owner, repo)]

InitIngestions ==
  /\ \E r1 \in IngestRepos, r2 \in IngestRepos,
        d \in {EmptyDb, Name_o_r :> {StoredRecord(<<"f">>)}} :
       /\ r1 # r2
       /\ ingestions =
            [db |-> d,
             procs |-> [p \in Procs |->
                          LET r == IF p = 1 THEN r1 ELSE r2
                          IN [pc |-> "fetch", owner |-> r[1], repo |-> r[2],
                              chunks |-> <<>>, embeddings |-> <<>>,
                              collection_name |-> <<>>]]]
  /\ chunker = Idle /\ embedder = Idle /\ namer = Idle /\ validator = Idle
  /\ chatcall = Idle /\ WorkflowOff

OthersUnchanged == UNCHANGED <<chunker, embedder, namer, validator, chatcall, wfVars>>

\* crawler, chunker, embedder and the collection's name
IngestFetch ==
  /\ \E p \in Procs :
       /\ ingestions.procs[p].pc = "fetch"
       /\ ingestions' =
            [ingestions EXCEPT !.procs[p] = IngestLocals(@.owner, @.repo)]
  /\ OthersUnchanged

\* create_or_get_collection: self.client.get_collection(collection_name)
IngestGet ==
  /\ \E p \in Procs :
       LET proc == ingestions.procs[p] IN
       /\ proc.pc = "get"
       /\ ingestions' =
            [ingestions EXCEPT
               !.procs[p].pc = IF proc.collection_name \in DOMAIN ingestions.db
                                 THEN "add" ELSE "create"]
  /\ OthersUnchanged

\* create_or_get_collection: self.client.create_collection(...), which raises
\* on a name the store does not accept or already holds.
IngestCreate ==
  /\ \E p \in Procs :
       LET proc == ingestions.procs[p] IN
       /\ proc.pc = "create"
       /\ ingestions' =
            IF ValidCollectionName(proc.collection_name)
                 /\ proc.collection_name \notin DOMAIN ingestions.db
              THEN [ingestions EXCEPT !.db = (proc.collection_name :> {}) @@ @,
                                      !.procs[p].pc = "add"]
              ELSE [ingestions EXCEPT !.procs[p].pc = "failed"]
  /\ OthersUnchanged

\* chroma.store_chunks(collection, all_chunks, embeddings)
IngestAdd ==
  /\ \E p \in Procs :
       LET proc == ingestions.procs[p] IN
       /\ proc.pc = "add"
       /\ ingestions' =
            [ingestions EXCEPT
               !.db = store_chunks(@, proc.collection_name, proc.chunks,
                                   proc.embeddings),
               !.procs[p].pc = "done"]
  /\ OthersUnchanged

NextIngestions == IngestFetch \/ IngestGet \/ IngestCreate \/ IngestAdd

SpecIngestions == InitIngestions /\ [][NextIngestions]_vars

(***************************************************************************)
(* Claims about chunk_by_lines (checked under SpecChunker).                *)
(***************************************************************************)
ChunkLines(ch) == Split(ch.content)
ChunkLen(ch) == ch.end_line - ch.start_line + 1
ChunkerDone == chunker.pc = "done"

\* C1: the chunks reconstruct the file: each chunk's content is the
\* newline-join of the source lines start_line..end_line with
\* 1 <= start_line <= end_line, the first chunk starts at line 1, the last
\* ends at the line count, and each next chunk starts no later than the line
\* after the previous chunk's end, so no line is skipped or reordered.
C1_ChunksReconstructFile ==
  ChunkerDone =>
    LET cs == chunker.chunks
        lines == Split(chunker.content)
    IN /\ Join(lines) = chunker.content
       /\ Len(cs) >= 1
       /\ cs[1].start_line = 1
       /\ cs[Len(cs)].end_line = Len(lines)
       /\ \A k \in 1..Len(cs) :
            /\ 1 <= cs[k].start_line
            /\ cs[k].start_line <= cs[k].end_line
            /\ cs[k].end_line <= Len(lines)
            /\ cs[k].content = Join(SubSeq(lines, cs[k].start_line, cs[k].end_line))
       /\ \A k \in 1..(Len(cs) - 1) : cs[k + 1].start_line <= cs[k].end_line + 1

C1_Witness ==
  /\ ChunkerDone
  /\ chunker.chunk_overlap > 0
  /\ Len(chunker.chunks) >= 3
  /\ \E k \in 1..Len(chunker.chunks) : ChunkLen(chunker.chunks[k]) >= 2

\* C2: every chunk's per-line-summed token count is <= max_chunk_size, except
\* a chunk that is a single line whose own token count exceeds max_chunk_size.
C2_ChunksWithinBudget ==
  ChunkerDone =>
    \A k \in 1..Len(chunker.chunks) :
      LET ls == ChunkLines(chunker.chunks[k]) IN
        \/ SumTokens(ls) <= chunker.max_chunk_size
        \/ Len(ls) = 1

IsOversized(line) == count_tokens(Append(line, NL)) > chunker.max_chunk_size

\* C12: no line is split, and a line whose own token count exceeds
\* max_chunk_size is placed alone: a chunk that contains such a line contains
\* no other line, whatever chunk_overlap is.
C12_OversizedLineIsAlone ==
  ChunkerDone =>
    LET lines == Split(chunker.content) IN
    \A k \in 1..Len(chunker.chunks) :
      LET ch == chunker.chunks[k]
          ls == ChunkLines(ch)
      IN /\ ls = SubSeq(lines, ch.start_line, ch.end_line)
         /\ (\E j \in 1..Len(ls) : IsOversized(ls[j])) => Len(ls) = 1

IdPaths == {<<"f">>, <<"f", "_", "1">>, <<"f", "_", "1", "_", "1">>, <<"f", "1">>}
IdLines == {1, 2, 11, 12, 21}
IdOf(path, start_line, end_line) ==
  ChunkId([file_path |-> path, start_line |-> start_line, end_line |-> end_line])
IdInjective ==
  \A p1 \in IdPaths, p2 \in IdPaths, s1 \in IdLines, s2 \in IdLines,
     e1 \in IdLines, e2 \in IdLines :
    IdOf(p1, s1, e1) = IdOf(p2, s2, e2) => (p1 = p2 /\ s1 = s2 /\ e1 = e2)

\* C17: the records of one ingestion run have pairwise distinct identifiers
\* when the file paths are distinct: within a file the chunks' end_line is
\* strictly increasing and start_line non-decreasing, for every max_chunk_size
\* and chunk_overlap, and the identifier is injective in (file_path,
\* start_line, end_line), so two chunks with one identifier are the same chunk
\* of the same file.
C17_RecordIdsDistinct ==
  /\ IdInjective
  /\ ChunkerDone =>
       LET cs == chunker.chunks IN
       /\ \A k \in 1..(Len(cs) - 1) :
            /\ cs[k].end_line < cs[k + 1].end_line
            /\ cs[k].start_line <= cs[k + 1].start_line
       /\ \A p1 \in IdPaths, p2 \in IdPaths :
            \A j \in 1..Len(cs), k \in 1..Len(cs) :
              ChunkId([cs[j] EXCEPT !.file_path = p1])
                  = ChunkId([cs[k] EXCEPT !.file_path = p2])
                => (p1 = p2 /\ j = k)

C17_Witness ==
  /\ ChunkerDone
  /\ Len(chunker.chunks) >= 3
  /\ \E k \in 1..(Len(chunker.chunks) - 1) :
       chunker.chunks[k].start_line = chunker.chunks[k + 1].start_line
  /\ \E k \in 1..(Len(chunker.chunks) - 1) :
       chunker.chunks[k].start_line < chunker.chunks[k + 1].start_line

(***************************************************************************)
(* Claims about generate_batch_embeddings (checked under SpecEmbedder).    *)
(***************************************************************************)
RECURSIVE Concat(_)
Concat(ss) == IF Len(ss) = 0 THEN <<>> ELSE ss[1] \o Concat(Tail(ss))

\* C5: one embedding call is issued per consecutive group of at most
\* batch_size texts, and the returned list has the length of texts with the
\* vector of texts[k] at position k.
C5_BatchEmbeddingsInOrder ==
  embedder.pc = "done" =>
    LET n == Len(embedder.texts)
        b == embedder.batch_size
        calls == embedder.calls
    IN /\ Len(embedder.embeddings) = n
       /\ \A k \in 1..n : embedder.embeddings[k] = EmbeddingOf(embedder.texts[k])
       /\ Concat(calls) = embedder.texts
       /\ Len(calls) = (n + b - 1) \div b
       /\ \A c \in 1..Len(calls) :
            /\ 1 <= Len(calls[c])
            /\ Len(calls[c]) <= b
            /\ c < Len(calls) => Len(calls[c]) = b

C5_Witness ==
  /\ embedder.pc = "done"
  /\ Len(embedder.calls) >= 2
  /\ Len(embedder.calls[Len(embedder.calls)]) < embedder.batch_size
  /\ \E j, k \in 1..Len(embedder.texts) : embedder.texts[j] # embedder.texts[k]

(***************************************************************************)
(* Claims about sanitize_collection_name (checked under SpecNamer).        *)
(***************************************************************************)
\* C6: for every owner and repo, empty and hyphen-only strings included, the
\* result neither starts nor ends with "_": its first and last characters
\* are alphanumeric.
C6_NameStartsAndEndsAlnum ==
  namer.pc = "done" =>
    /\ Len(namer.result) > 0
    /\ IsAlnum(namer.result[1])
    /\ IsAlnum(namer.result[Len(namer.result)])

\* C7: the result's length is at least 3 and at most 60, and a name that
\* already has length 3 ("a_b" for owner "a", repo "b") is returned without
\* the "_collection" suffix.
C7_NameLengthBounds ==
  /\ sanitize_collection_name(<<"a">>, <<"b">>) = <<"a", "_", "b">>
  /\ namer.pc = "done" =>
       /\ Len(namer.result) >= 3
       /\ Len(namer.result) <= 60
       /\ Len(Stripped(namer.owner, namer.repo)) = 3 =>
            namer.result = Stripped(namer.owner, namer.repo)

C7_Witness ==
  /\ namer.pc = "done"
  /\ Len(Stripped(namer.owner, namer.repo)) > 60
  /\ Len(namer.result) = 60
  /\ namer.result[60] = "x"

(***************************************************************************)
(* Claims about validate_url_node (checked under SpecValidator).           *)
(***************************************************************************)
StartsWith(s, p) == Len(s) >= Len(p) /\ SubSeq(s, 1, Len(p)) = p
EndsWith(s, p) == Len(s) >= Len(p) /\ SubSeq(s, Len(s) - Len(p) + 1, Len(s)) = p

\* The URL's path after "https://github.com/", cut at a query or fragment.
RECURSIVE UpTo(_, _)
UpTo(s, stops) ==
  IF Len(s) = 0 \/ s[1] \in stops THEN <<>> ELSE <<s[1]>> \o UpTo(Tail(s), stops)
WithoutGit(seg) ==
  IF EndsWith(seg, Str_git) THEN SubSeq(seg, 1, Len(seg) - Len(Str_git)) ELSE seg
UrlPath(url) == SubSeq(url, Len(Str_https_github_com) + 1, Len(url))
FirstSegment(url) == UpTo(UrlPath(url), {"/", "?", "#"})
AfterFirst(url) ==
  SubSeq(UrlPath(url), Len(FirstSegment(url)) + 2, Len(UrlPath(url)))
SecondSegment(url) == WithoutGit(UpTo(AfterFirst(url), {"/", "?", "#"}))
HasSecond(url) ==
  /\ Len(UrlPath(url)) > Len(FirstSegment(url))
  /\ UrlPath(url)[Len(FirstSegment(url)) + 1] = "/"
\* https://github.com/{owner}/{repo} followed by any trailing part.
IsGitHubRepoUrl(url) ==
  /\ StartsWith(url, Str_https_github_com)
  /\ Len(FirstSegment(url)) > 0
  /\ HasSecond(url)
  /\ Len(SecondSegment(url)) > 0

\* C8: valid=True exactly for https://github.com/{owner}/{repo} plus any
\* trailing part, with owner and repo the first two path segments and the
\* trailing part (subpath, ".git" suffix, query string) excluded; every other
\* URL gives valid=False with error "Invalid GitHub URL".
C8_ValidExactlyForGitHubRepoUrls ==
  validator.pc = "done" =>
    LET url == validator.state.repo_url
        r == validator.result
    IN IF IsGitHubRepoUrl(url)
         THEN /\ r.valid
              /\ r.owner = FirstSegment(url)
              /\ r.repo = SecondSegment(url)
         ELSE /\ ~r.valid
              /\ r.error = Str_Invalid_GitHub_URL

(***************************************************************************)
(* Claims about the workflow (checked under Spec).                         *)
(***************************************************************************)
\* C4: ingesting a repository again, its files unchanged, leaves the number
\* of records in its collection as it was, and completes without error when
\* no external call fails.
C4_ReingestKeepsRecordCount ==
  (run.last = "process_repo" /\ run.was_ingested) =>
    /\ Count(db, sanitize_collection_name(state.owner, state.repo)) = run.before
    /\ ~run.raised => (state.error = <<>> /\ state.processed)

C4_Witness ==
  /\ run.last = "process_repo"
  /\ run.was_ingested
  /\ ~run.raised
  /\ run.before >= 2
  /\ Len(state.chunks) = run.before

\* C9: when the embedding, retrieval or language-model call fails in chat_node
\* on a non-empty history, chat_node returns the fixed apology with a
\* non-empty error and the state's chat_history is as it was passed in.
C9_ChatFailureKeepsHistory ==
  (run.last = "chat" /\ run.raised /\ run.chat_in # <<>>) =>
    /\ node \in {"END", "idle"}
    /\ state.answer = <<"Sorry, I encountered an error while processing your question.">>
    /\ state.error # <<>>
    /\ state.chat_history = run.chat_in

C9_Witness ==
  /\ run.last = "chat"
  /\ run.raised
  /\ Len(run.chat_in) >= 3
  /\ "llm" \in run.touched
  /\ node = "END"

IsInfix(sub, s) ==
  \E k \in 0..(Len(s) - Len(sub)) : SubSeq(s, k + 1, k + Len(sub)) = sub

\* C10: on an empty chat history chat_node returns a greeting naming
\* owner/repo with an empty error, and makes no embedding call, no store
\* access and no language-model call.
C10_EmptyHistoryGreets ==
  (run.last = "chat" /\ run.chat_in = <<>>) =>
    /\ IsInfix(state.owner \o <<"/">> \o state.repo, state.answer)
    /\ state.answer[1] = "Hello! I'm ready to help you with questions about the "
    /\ state.error = <<>>
    /\ run.touched = {}
    /\ ~run.raised

C10_Witness ==
  /\ run.last = "chat"
  /\ run.chat_in = <<>>
  /\ node = "END"
  /\ state.owner = <<"o">>
  /\ state.repo = <<"r">>

\* The failures before the store is opened, by the error they leave.
EarlyFailures ==
  { <<"Error processing repository: ", "get_files">>,
    <<"Error processing repository: ", "get_file_content">>,
    <<"Error processing repository: ", "embeddings">>,
    <<"No code files found in the repository">>,
    <<"No content could be extracted from the repository">> }

\* The embedding calls an ingestion of owner/repo needs.
BatchesNeeded(owner, repo) ==
  NumBatches(Contents_of(AllChunks(owner, repo, get_files(owner, repo).files)),
             DefaultBatchSize)

\* C18: if listing the files, fetching a file or an embedding batch fails (a
\* batch after earlier ones succeeded included), or no files or no chunks are
\* produced, process_repo_node returns an error result and the store is
\* exactly as before the run; the store changes only after every fetch and
\* every embedding batch has succeeded.
C18_FailureBeforeStoreLeavesStore ==
  run.last = "process_repo" =>
    /\ state.error \in EarlyFailures =>
         /\ db = run.db_in
         /\ ~state.valid
         /\ ~state.processed
    /\ (run.raised /\ run.touched \subseteq {"github", "embedding"}) =>
         state.error \in EarlyFailures
    /\ db # run.db_in =>
         /\ {"github", "embedding", "store"} \subseteq run.touched
         /\ run.embed_calls = BatchesNeeded(state.owner, state.repo)

C18_Witness ==
  /\ run.last = "process_repo"
  /\ run.raised
  /\ run.embed_calls >= 1
  /\ run.embed_calls < BatchesNeeded(state.owner, state.repo)
  /\ run.db_in # EmptyDb
  /\ db = run.db_in

RunOver == node \in {"END", "idle"}

\* C13, its safety part: the nodes of a run execute in the order validate_url,
\* then possibly process_repo, then possibly chat; after a failed validation
\* the run is over and no service was touched; a process_repo error ends the
\* run before chat with the error and valid = FALSE in the state; a failing
\* call inside a node leaves an error in the state and ends the run.
C13_StepsInOrder ==
  /\ run.path \in {<<>>, <<"validate_url">>, <<"validate_url", "process_repo">>,
                    <<"validate_url", "chat">>,
                    <<"validate_url", "process_repo", "chat">>}
  /\ node = "END" => run.path # <<>>
  /\ (run.path # <<>> /\ state.error = Str_Invalid_GitHub_URL) =>
       /\ run.path = <<"validate_url">>
       /\ RunOver
       /\ ~state.valid
       /\ run.services = {}
  /\ (Len(run.path) >= 2 /\ run.path[2] = "process_repo" /\ state.error # <<>>) =>
       /\ run.path = <<"validate_url", "process_repo">>
       /\ RunOver
       /\ ~state.valid
  /\ run.raised =>
       /\ RunOver
       /\ state.error # <<>>

\* C13: every run of the graph executes validate_url, then optionally
\* process_repo, then optionally chat, as C13_StepsInOrder states, and every
\* run that has started reaches END.
C13_RunsInOrderAndEnds ==
  /\ []C13_StepsInOrder
  /\ (node = "validate_url") ~> (node = "END")

C13_Witness ==
  /\ node = "END"
  /\ run.path = <<"validate_url", "process_repo">>
  /\ run.raised
  /\ "embedding" \in run.services
  /\ ~state.valid

\* Each user turn is followed by its assistant answer.
Alternates(h) ==
  /\ Len(h) % 2 = 0
  /\ \A k \in 1..Len(h) : h[k].role = (IF k % 2 = 1 THEN "user" ELSE "assistant")

\* C19: a chat query whose run returns an error leaves the session's
\* chat_history as it was before handle_chat_query was called, so after any
\* sequence of successful and failed queries the session history alternates
\* user and assistant turns.
C19_FailedQueryRestoresSessionHistory ==
  node = "idle" =>
    /\ (run.caller = "chat" /\ session.processed /\ state.error # <<>>) =>
         session.chat_history = run.history_before
    /\ Alternates(session.chat_history)

(***************************************************************************)
(* Claims about chat_node (checked under SpecChatNode).                    *)
(***************************************************************************)
ChatCallAnswered == chatcall.pc = "done" /\ "prompt" \in DOMAIN chatcall.out

\* The turns before the current query, at most n of them, the latest ones.
LastPriorTurns(h, n) == SubSeq(h, Len(h) - Min(n, Len(h) - 1), Len(h) - 1)

\* C11: for a history of n >= 1 turns the prior-conversation context is made
\* of the last min(6, n - 1) turns before the current query, in their order,
\* and the current query is not among them.
C11_ContextIsLastSixPriorTurns ==
  (ChatCallAnswered /\ Len(chatcall.state.chat_history) >= 1) =>
    chatcall.out.prompt.conversation_context
      = FormatTurns(LastPriorTurns(chatcall.state.chat_history, 6))

\* C15: a chat turn is read-only on the vector store: whatever the store holds
\* (the named collection may be missing) and whatever the history, chat_node
\* leaves the set of collections and every collection's records unchanged.
C15_ChatLeavesStoreUnchanged ==
  chatcall.pc = "done" => chatcall.out.db = chatcall.db

(***************************************************************************)
(* Claims about concurrent ingestions (checked under SpecIngestions).      *)
(***************************************************************************)
Named(p) == ingestions.procs[p].pc \in {"get", "create", "add", "done"}
RepoOf(p) == <<ingestions.procs[p].owner, ingestions.procs[p].repo>>
NameOf(p) == ingestions.procs[p].collection_name
RecordsIn(name) == IF name \in DOMAIN ingestions.db THEN ingestions.db[name] ELSE {}
\* The collection p uses holds no record of the repository q ingests.
NoRecordOf(q, p) ==
  \A rec \in RecordsIn(NameOf(p)) : <<rec.metadata.owner, rec.metadata.repo>> # RepoOf(q)

====
